---------------------------- MODULE Spec2Model ----------------------------
(***************************************************************************)
(* A model of src/api_spec_generator/sdk_api_generator.py: the linear      *)
(* agent pipeline of main(), its four phase functions, the five save       *)
(* tools, and the text-to-JSON extractor extract_json_from_text.           *)
(*                                                                         *)
(* Texts are sequences of lexemes (TLA+ strings): the fence of three       *)
(* backquotes, the tag "json", one whitespace lexeme, the JSON             *)
(* punctuation, JSON literals                                              *)
(* and prose words.  Python objects are tagged records (None, int, str,    *)
(* list, dict); a Python str is the sequence of its words, so that         *)
(* concatenation, split and the substring test of `in` are computed.       *)
(***************************************************************************)
EXTENDS Integers, Sequences, FiniteSets, TLC

VARIABLES
    pc,               \* the await (or terminal point) the flow of control is at
    driver,           \* "main": asyncio.run(main()); "phase4": a caller of phase_4_documentation_generation; "extract": a caller of extract_json_from_text
    OPENAI_API_KEY,   \* os.environ.get("OPENAI_API_KEY")
    input_read,       \* whether input("> ") has been read
    user_input,       \* main's local
    requirements,     \* main's / phase 4's local
    architecture,     \* main's / phase 4's local
    endpoints,        \* main's / phase 4's local
    schemas,          \* phase 4's local
    api_spec_paths,   \* api_spec["paths"]: the one top-level slot of the shallow copy that phase 4 assigns
    template_info,    \* the dict object API_SPEC_TEMPLATE["info"], shared with every api_spec
    template_schemas, \* API_SPEC_TEMPLATE["components"]["schemas"], a slot of the shared components dict
    files,            \* the working directory: file name -> content
    files_quiet,      \* the working directory of the companion run, which differs
                      \* only in that the coordinator's commentary invocations do nothing
    calls,            \* the Runner.run invocations of this run, in order
    ntools,           \* tool calls made by the invocation in flight
    tool_result,      \* the string the last tool call returned to its agent
    tool_call,        \* that tool call: the tool's name and its argument
    error,            \* the exception that ended the run, and where it was raised
    runs,             \* invocations of phase_4_documentation_generation so far
    text,             \* the argument of the extract_json_from_text call (driver "extract")
    result            \* what that call returned

vars == <<pc, driver, OPENAI_API_KEY, input_read, user_input, requirements,
          architecture, endpoints, schemas, api_spec_paths, template_info,
          template_schemas, files, files_quiet, calls, ntools, tool_result, tool_call,
          error, runs, text, result>>

---------------------------------------------------------------------------
(* Bounds of the model. *)

\* longest text handed to extract_json_from_text by the "extract" driver
MaxLen == 6
\* tool calls one agent invocation may make
MaxToolCalls == 1
\* calls of phase_4_documentation_generation in one process (driver "phase4")
MaxRuns == 2

---------------------------------------------------------------------------
(* Python objects. *)

None == [k |-> "None"]
PyInt(n) == [k |-> "int", n |-> n]
PyStr(s) == [k |-> "str", s |-> s]
PyList(l) == [k |-> "list", items |-> l]
PyDict(m) == [k |-> "dict", m |-> m]
EmptyMap == [z \in {} |-> None]
EmptyDict == PyDict(EmptyMap)

IsDict(v) == v.k = "dict"
IsStr(v) == v.k = "str"

\* d[key] = v on a dict
DictSet(d, key, v) ==
    PyDict([z \in (DOMAIN d.m) \cup {key} |-> IF z = key THEN v ELSE d.m[z]])

\* bool(v)
Truthy(v) ==
    CASE v.k = "None" -> FALSE
      [] v.k = "int"  -> v.n # 0
      [] v.k = "str"  -> Len(v.s) > 0
      [] v.k = "list" -> Len(v.items) > 0
      [] v.k = "dict" -> DOMAIN v.m # {}

\* whether sub occurs in s as a contiguous run (str.__contains__)
StrContains(s, sub) ==
    \E i \in 1..(Len(s) - Len(sub) + 1) : SubSeq(s, i, i + Len(sub) - 1) = sub

\* whether `key in v` raises TypeError (int and None are not iterable)
InRaises(v) == v.k \in {"None", "int"}

\* `key in v`, key a str, for the v on which it does not raise
In(key, v) ==
    CASE v.k = "dict" -> key \in DOMAIN v.m
      [] v.k = "list" -> \E i \in 1..Len(v.items) : v.items[i] = PyStr(key)
      [] v.k = "str"  -> StrContains(v.s, key)
      [] OTHER        -> FALSE

\* whether v[key], key a str, raises TypeError (list and str take integer indices)
SubscriptRaises(v) == v.k # "dict"

Min(S) == CHOOSE x \in S : \A y \in S : x <= y
Max(S) == CHOOSE x \in S : \A y \in S : x >= y

---------------------------------------------------------------------------
(* Lexemes. *)

\* the fence: three backquotes
FENCE == "'''"
TAG == "json"
WS == " "

NumTokens == {"0", "5"}
NumVal(tok) == IF tok = "0" THEN 0 ELSE 5

\* the JSON string literals of the model, and the str each denotes
StrTokens == {"\"\"", "\"paths\"", "\"title\"", "\"description\"", "\"T\"",
              "\"D\"", "\"/a\"", "\"User\"", "\"title description\""}
Unquote(tok) ==
    CASE tok = "\"\""            -> <<>>
      [] tok = "\"paths\""       -> <<"paths">>
      [] tok = "\"title\""       -> <<"title">>
      [] tok = "\"description\"" -> <<"description">>
      [] tok = "\"T\""           -> <<"T">>
      [] tok = "\"D\""           -> <<"D">>
      [] tok = "\"/a\""          -> <<"/a">>
      [] tok = "\"User\""        -> <<"User">>
      [] tok = "\"title description\"" -> <<"title", " ", "description">>

---------------------------------------------------------------------------
(* json.loads *)

\* the first index at or after i that holds no whitespace
RECURSIVE SkipWs(_, _)
SkipWs(t, i) == IF i <= Len(t) /\ t[i] = WS THEN SkipWs(t, i + 1) ELSE i

ParseFail == [ok |-> FALSE, v |-> None, i |-> 0]

RECURSIVE ParseValue(_, _)
RECURSIVE ParseArray(_, _, _)
RECURSIVE ParseObject(_, _, _)

\* a JSON value starting at t[i] (i holds no whitespace): the value and the
\* index after it
ParseValue(t, i) ==
    IF i > Len(t) THEN ParseFail
    ELSE CASE t[i] = "null"       -> [ok |-> TRUE, v |-> None, i |-> i + 1]
           [] t[i] \in NumTokens  -> [ok |-> TRUE, v |-> PyInt(NumVal(t[i])), i |-> i + 1]
           [] t[i] \in StrTokens  -> [ok |-> TRUE, v |-> PyStr(Unquote(t[i])), i |-> i + 1]
           [] t[i] = "["          ->
                LET j == SkipWs(t, i + 1)
                IN  IF j <= Len(t) /\ t[j] = "]"
                    THEN [ok |-> TRUE, v |-> PyList(<<>>), i |-> j + 1]
                    ELSE ParseArray(t, j, <<>>)
           [] t[i] = "{"          ->
                LET j == SkipWs(t, i + 1)
                IN  IF j <= Len(t) /\ t[j] = "}"
                    THEN [ok |-> TRUE, v |-> EmptyDict, i |-> j + 1]
                    ELSE ParseObject(t, j, EmptyDict)
           [] OTHER               -> ParseFail

\* the items of an array from t[i] on, after the items in acc
ParseArray(t, i, acc) ==
    LET r == ParseValue(t, i)
        j == SkipWs(t, r.i)
    IN  IF ~r.ok \/ j > Len(t) THEN ParseFail
        ELSE IF t[j] = "]"
             THEN [ok |-> TRUE, v |-> PyList(Append(acc, r.v)), i |-> j + 1]
        ELSE IF t[j] = ","
             THEN ParseArray(t, SkipWs(t, j + 1), Append(acc, r.v))
        ELSE ParseFail

\* the members of an object from t[i] on, added to acc (a repeated key keeps
\* its last value)
ParseObject(t, i, acc) ==
    IF i > Len(t) \/ t[i] \notin StrTokens THEN ParseFail
    ELSE LET c == SkipWs(t, i + 1)
         IN  IF c > Len(t) \/ t[c] # ":" THEN ParseFail
             ELSE LET r == ParseValue(t, SkipWs(t, c + 1))
                      j == SkipWs(t, r.i)
                      d == DictSet(acc, Unquote(t[i]), r.v)
                  IN  IF ~r.ok \/ j > Len(t) THEN ParseFail
                      ELSE IF t[j] = "}"
                           THEN [ok |-> TRUE, v |-> d, i |-> j + 1]
                      ELSE IF t[j] = ","
                           THEN ParseObject(t, SkipWs(t, j + 1), d)
                      ELSE ParseFail

\* json.loads(t): ok is FALSE where it raises json.JSONDecodeError
json_loads(t) ==
    LET r == ParseValue(t, SkipWs(t, 1))
    IN  IF r.ok /\ SkipWs(t, r.i) > Len(t)
        THEN [ok |-> TRUE, v |-> r.v]
        ELSE [ok |-> FALSE, v |-> None]

---------------------------------------------------------------------------
(* extract_json_from_text *)

\* str.strip()
RECURSIVE Strip(_)
Strip(t) ==
    IF t = <<>> THEN t
    ELSE IF Head(t) = WS THEN Strip(Tail(t))
    ELSE IF t[Len(t)] = WS THEN Strip(SubSeq(t, 1, Len(t) - 1))
    ELSE t

\* re.findall(the fenced-block pattern, t) from index i on: the
\* bodies of the non-overlapping matches, leftmost first
RECURSIVE re_findall(_, _)
re_findall(t, i) ==
    LET opens == {j \in i..Len(t) : t[j] = FENCE}
    IN  IF opens = {} THEN <<>>
        ELSE LET o == Min(opens)
                 a == IF o + 1 <= Len(t) /\ t[o + 1] = TAG THEN o + 2 ELSE o + 1
                 b == SkipWs(t, a)
                 closes == {j \in b..Len(t) : t[j] = FENCE}
             IN  IF closes = {} THEN <<>>
                 ELSE <<SubSeq(t, b, Min(closes) - 1)>>
                          \o re_findall(t, Min(closes) + 1)

\* the abandoned scan: a block that does not parse ends the loop
RECURSIVE first_match_abort(_, _)
first_match_abort(matches, i) ==
    IF i > Len(matches) THEN [ok |-> FALSE, v |-> None]
    ELSE json_loads(Strip(matches[i]))

\* the loop over the matches: the first json.loads that does not raise
\* returns; a JSONDecodeError continues with the next match
RECURSIVE first_match(_, _)
first_match(matches, i) ==
    IF i > Len(matches) THEN [ok |-> FALSE, v |-> None]
    ELSE LET r == json_loads(Strip(matches[i]))
         IN  IF r.ok THEN r ELSE first_match(matches, i + 1)

\* a non-greedy search: the first "{" to the first "}" after it
brace_span_lazy(t) ==
    LET lb == {j \in 1..Len(t) : t[j] = "{"}
    IN  IF lb = {} THEN [found |-> FALSE, s |-> <<>>]
        ELSE LET rb == {j \in (Min(lb) + 1)..Len(t) : t[j] = "}"}
             IN  IF rb = {} THEN [found |-> FALSE, s |-> <<>>]
                 ELSE [found |-> TRUE, s |-> SubSeq(t, Min(lb), Min(rb))]

\* re.search(r"\{[\s\S]*\}", t).group(0): the first "{" to the last "}"
\* after it; found is FALSE where re.search returns None
brace_span(t) ==
    LET lb == {j \in 1..Len(t) : t[j] = "{"}
    IN  IF lb = {} THEN [found |-> FALSE, s |-> <<>>]
        ELSE LET rb == {j \in (Min(lb) + 1)..Len(t) : t[j] = "}"}
             IN  IF rb = {} THEN [found |-> FALSE, s |-> <<>>]
                 ELSE [found |-> TRUE, s |-> SubSeq(t, Min(lb), Max(rb))]

extract_json_from_text(t) ==
    LET block == first_match(re_findall(t, 1), 1)
        whole == json_loads(t)
        span  == brace_span(t)
    IN  IF block.ok THEN block.v
        ELSE IF whole.ok THEN whole.v
        ELSE IF span.found /\ json_loads(span.s).ok THEN json_loads(span.s).v
        ELSE None

---------------------------------------------------------------------------
(* The caller of extract_json_from_text alone. *)

ExtractAlphabet == {FENCE, TAG, WS, "{", "}", "5", "x"}

\* the texts of n lexemes
TextsOfLen(n) == [1..n -> ExtractAlphabet]


---------------------------------------------------------------------------
(* The pipeline's constants. *)

Unset == [k |-> "unset"]
Absent == [k |-> "absent"]
\* no tool has been called by the invocation in flight
NoCall == [tool |-> "none", arg |-> <<>>]
NoError == [type |-> "none", at |-> "none"]

FILES == {"api_requirements.json", "api_architecture.json", "api_endpoints.json",
          "openapi_specification.json", "api_documentation.md"}

COORDINATOR == "Coordinator Agent"

\* the awaits of Runner.run, by what is awaited
AwaitPcs == {"guidance", "phase1", "req_feedback", "phase2", "arch_feedback",
             "phase3", "endpoint_feedback", "schemas", "metadata",
             "documentation", "final"}

\* the awaits of main whose result is only printed: the initial guidance,
\* the feedback after phases 1 to 3, the final message
CommentaryPcs == {"guidance", "req_feedback", "arch_feedback",
                  "endpoint_feedback", "final"}

\* the agent each await runs
AgentAt(p) ==
    CASE p = "phase1"        -> "Requirements Agent"
      [] p = "phase2"        -> "Architect Agent"
      [] p = "phase3"        -> "Endpoint Designer Agent"
      [] p = "schemas"       -> "Schema Designer Agent"
      [] p = "documentation" -> "Documentation Agent"
      [] OTHER               -> COORDINATOR

\* the tools= of each create_*_agent
ToolsOf(agent) ==
    CASE agent = "Requirements Agent"      -> {"save_requirements"}
      [] agent = "Architect Agent"         -> {"save_architecture"}
      [] agent = "Endpoint Designer Agent" -> {"save_endpoints"}
      [] agent = "Schema Designer Agent"   -> {"save_openapi_spec"}
      [] agent = "Documentation Agent"     -> {"save_documentation"}
      [] agent = COORDINATOR               ->
            {"save_requirements", "save_architecture", "save_endpoints",
             "save_openapi_spec", "save_documentation"}

\* API_SPEC_TEMPLATE["info"] as the module defines it
InitialInfo ==
    PyDict([z \in {<<"title">>, <<"description">>, <<"version">>} |->
              CASE z = <<"title">>       -> PyStr(<<"API Specification">>)
                [] z = <<"description">> -> PyStr(<<"REST API based on user requirements">>)
                [] z = <<"version">>     -> PyStr(<<"1.0.0">>)])

SERVERS ==
    PyList(<<PyDict([z \in {<<"url">>, <<"description">>} |->
                       IF z = <<"url">> THEN PyStr(<<"https://api.example.com/v1">>)
                       ELSE PyStr(<<"Production server">>)]),
             PyDict([z \in {<<"url">>, <<"description">>} |->
                       IF z = <<"url">> THEN PyStr(<<"https://staging-api.example.com/v1">>)
                       ELSE PyStr(<<"Staging server">>)])>>)

SECURITY_SCHEMES ==
    PyDict([z \in {<<"BearerAuth">>} |->
              PyDict([y \in {<<"type">>, <<"scheme">>, <<"bearerFormat">>} |->
                        CASE y = <<"type">>         -> PyStr(<<"http">>)
                          [] y = <<"scheme">>       -> PyStr(<<"bearer">>)
                          [] y = <<"bearerFormat">> -> PyStr(<<"JWT">>)])])

\* an OpenAPI document with these paths, this info object and these schemas
ApiSpecOf(paths, info, schms) ==
    PyDict([z \in {<<"openapi">>, <<"info">>, <<"servers">>, <<"paths">>, <<"components">>} |->
              CASE z = <<"openapi">>    -> PyStr(<<"3.0.0">>)
                [] z = <<"info">>       -> info
                [] z = <<"servers">>    -> SERVERS
                [] z = <<"paths">>      -> paths
                [] z = <<"components">> ->
                     PyDict([y \in {<<"schemas">>, <<"securitySchemes">>} |->
                               IF y = <<"schemas">> THEN schms ELSE SECURITY_SCHEMES])])

\* the module-level dict: its top level is never assigned, its info and
\* components objects are the ones every shallow copy shares
API_SPEC_TEMPLATE == ApiSpecOf(EmptyDict, template_info, template_schemas)

\* phase 4's api_spec = API_SPEC_TEMPLATE.copy(): a top level of its own over
\* the template's info and components objects
api_spec == ApiSpecOf(api_spec_paths, template_info, template_schemas)

CONTACT ==
    PyDict([z \in {<<"name">>, <<"url">>, <<"email">>} |->
              CASE z = <<"name">>  -> PyStr(<<"API Support">>)
                [] z = <<"url">>   -> PyStr(<<"https://example.com/support">>)
                [] z = <<"email">> -> PyStr(<<"api-support@example.com">>)])

TERMS == PyStr(<<"https://example.com/terms">>)

---------------------------------------------------------------------------
(* What the outside world may supply. *)

\* values of the environment variable: unset, empty, set
KeyValues == {None, PyStr(<<>>), PyStr(<<"sk-key">>)}

UserInputs == {<<"a todo list API with users and tasks">>}

\* final_output of the requirements agent, the architect, the documentation
\* agent and the coordinator's commentary
ReqOutputs == {<<"R1", ".", "R2">>, <<"R0">>}
ArchOutputs == {<<"A1">>}
DocOutputs == {<<"D1">>}
CoordOutputs == {<<"ok">>}

\* final_output of the endpoint designer: a fenced object with paths, a fenced
\* object without paths, a bare list, prose, and a malformed block before a
\* valid one
EndpointOutputs ==
    { <<FENCE, TAG, WS, "{", "\"paths\"", ":", "{", "\"/a\"", ":", "{", "}", "}", "}", WS, FENCE>>,
      <<FENCE, TAG, WS, "{", "\"title\"", ":", "5", "}", FENCE>>,
      <<"[", "5", "]">>,
      <<"x">>,
      <<FENCE, "x", FENCE, "x", FENCE, "{", "\"paths\"", ":", "{", "}", "}", FENCE>> }

\* final_output of the schema designer: a fenced object, prose, prose around
\* an empty object
SchemaOutputs ==
    { <<FENCE, TAG, WS, "{", "\"User\"", ":", "{", "}", "}", WS, FENCE>>,
      <<"x">>,
      <<"x", "{", "}", "x">> }

\* final_output of the coordinator asked for title and description
TitleOutputs ==
    { <<FENCE, TAG, WS, "{", "\"title\"", ":", "\"T\"", ",", "\"description\"", ":", "\"D\"", "}", WS, FENCE>>,
      <<FENCE, TAG, WS, "{", "\"title\"", ":", "\"\"", ",", "\"description\"", ":", "\"D\"", "}", WS, FENCE>>,
      <<"{", "\"title\"", ":", "\"T\"", "}">>,
      <<"x">>,
      <<"5">>,
      <<"\"title description\"">>,
      <<"[", "\"title\"", ",", "\"description\"", "]">> }

\* the arguments agents pass to the save tools
TextArgs == {<<"R1">>}
JsonArgs == {<<"{", "}">>, <<"{", "\"title\"", ":", "5", "}">>, <<"x">>}

\* arguments a caller of phase_4_documentation_generation may pass
P4Requirements == {<<"R1", ".", "R2">>}
P4Architectures == {<<"A1">>}
P4Endpoints ==
    { None, PyInt(5), PyList(<<PyStr(<<"paths">>)>>), EmptyDict,
      PyDict([z \in {<<"title">>} |-> PyInt(5)]),
      PyDict([z \in {<<"paths">>} |-> EmptyDict]),
      PyDict([z \in {<<"paths">>} |-> PyDict([y \in {<<"/a">>} |-> EmptyDict])]),
      PyDict([z \in {<<"paths">>} |-> None]) }

---------------------------------------------------------------------------
(* The save tools: the files after the call and the string returned. *)

\* save_to_file(data, filename): json.dump writes data
save_to_file(fs, data, filename) == [fs EXCEPT ![filename] = data]

save_requirements(fs, arg) ==
    [files |-> save_to_file(fs, PyDict([z \in {<<"requirements">>} |-> PyStr(arg)]),
                            "api_requirements.json"),
     ret |-> "Requirements saved successfully"]

save_architecture(fs, arg) ==
    [files |-> save_to_file(fs, PyDict([z \in {<<"architecture">>} |-> PyStr(arg)]),
                            "api_architecture.json"),
     ret |-> "Architecture saved successfully"]

\* the file opened for writing before the argument is parsed: an argument
\* that does not parse leaves it empty
save_endpoints_truncating(fs, arg) ==
    IF json_loads(arg).ok
    THEN [files |-> save_to_file(fs, json_loads(arg).v, "api_endpoints.json"),
          ret |-> "Endpoints saved successfully"]
    ELSE [files |-> save_to_file(fs, PyStr(<<>>), "api_endpoints.json"),
          ret |-> "Error: Invalid JSON format"]

save_endpoints(fs, arg) ==
    IF json_loads(arg).ok
    THEN [files |-> save_to_file(fs, json_loads(arg).v, "api_endpoints.json"),
          ret |-> "Endpoints saved successfully"]
    ELSE [files |-> fs, ret |-> "Error: Invalid JSON format"]

save_openapi_spec(fs, arg) ==
    IF json_loads(arg).ok
    THEN [files |-> save_to_file(fs, json_loads(arg).v, "openapi_specification.json"),
          ret |-> "OpenAPI specification saved successfully"]
    ELSE [files |-> fs, ret |-> "Error: Invalid JSON format"]

save_documentation(fs, arg) ==
    [files |-> [fs EXCEPT !["api_documentation.md"] = PyStr(arg)],
     ret |-> "Documentation saved successfully"]

ToolArgs(tool) ==
    IF tool \in {"save_endpoints", "save_openapi_spec"} THEN JsonArgs ELSE TextArgs

CallTool(tool, fs, arg) ==
    CASE tool = "save_requirements"  -> save_requirements(fs, arg)
      [] tool = "save_architecture"  -> save_architecture(fs, arg)
      [] tool = "save_endpoints"     -> save_endpoints(fs, arg)
      [] tool = "save_openapi_spec"  -> save_openapi_spec(fs, arg)
      [] tool = "save_documentation" -> save_documentation(fs, arg)

---------------------------------------------------------------------------
(* Runner.run: the call, the tool calls of the agent, a failure. *)

phase4_locals == <<requirements, architecture, endpoints, schemas, api_spec_paths>>
template == <<template_info, template_schemas>>
extract_vars == <<text, result>>

\* await Runner.run(agent, prompt): the prompt is its template and the values
\* interpolated into it
Invoke(p, prompt_args) ==
    /\ calls' = Append(calls, [agent |-> AgentAt(p), prompt |-> p, args |-> prompt_args])
    /\ ntools' = 0
    /\ tool_result' = ""
    /\ tool_call' = NoCall
    /\ pc' = p

\* the agent in flight calls one of its tools
ToolCall ==
    /\ pc \in AwaitPcs
    /\ ntools < MaxToolCalls
    /\ \E tool \in ToolsOf(AgentAt(pc)) : \E arg \in ToolArgs(tool) :
          /\ files' = CallTool(tool, files, arg).files
          /\ files_quiet' = IF pc \in CommentaryPcs THEN files_quiet
                            ELSE CallTool(tool, files_quiet, arg).files
          /\ tool_result' = CallTool(tool, files, arg).ret
          /\ tool_call' = [tool |-> tool, arg |-> arg]
    /\ ntools' = ntools + 1
    /\ UNCHANGED <<pc, driver, OPENAI_API_KEY, input_read, user_input, phase4_locals,
                   template, calls, error, runs, extract_vars>>

\* a retry of the failed invocation in place of the propagation
Raise_retry(type) ==
    /\ calls' = Append(calls, calls[Len(calls)])
    /\ error' = [type |-> type, at |-> pc]
    /\ pc' = pc
    /\ UNCHANGED <<driver, OPENAI_API_KEY, input_read, user_input, phase4_locals,
                   template, files,
                   files_quiet, ntools, tool_result, tool_call, runs, extract_vars>>

\* an exception raised in the code after the await at pc: no except clause
\* encloses any await or any phase, so it leaves main (or phase 4's caller)
Raise(type) ==
    /\ pc' = "crashed"
    /\ error' = [type |-> type, at |-> pc]
    /\ UNCHANGED <<driver, OPENAI_API_KEY, input_read, user_input, phase4_locals,
                   template, files,
                   files_quiet, calls, ntools, tool_result, tool_call, runs, extract_vars>>

\* Runner.run raises
RunnerRaises ==
    /\ pc \in AwaitPcs
    /\ Raise("RunnerError")

---------------------------------------------------------------------------
(* main() and phases 1 to 3. *)

\* `if not api_key` read as `if api_key is None`
CredentialMissing_none_only == OPENAI_API_KEY = None

\* `if not api_key`
CredentialMissing == ~Truthy(OPENAI_API_KEY)

\* main up to its first await: the credential check, the input, the guidance call
MainStart ==
    /\ pc = "start"
    /\ driver = "main"
    /\ IF CredentialMissing
       THEN /\ pc' = "halted"
            /\ UNCHANGED <<input_read, user_input, calls, ntools, tool_result, tool_call>>
       ELSE \E u \in UserInputs :
              /\ input_read' = TRUE
              /\ user_input' = u
              /\ Invoke("guidance", <<PyStr(u)>>)
    /\ UNCHANGED <<driver, OPENAI_API_KEY, phase4_locals, template, files,
                   files_quiet, error,
                   runs, extract_vars>>

\* the guidance returns; phase_1_requirements_gathering(user_input) runs up
\* to its await
GuidanceReturns ==
    /\ pc = "guidance"
    /\ \E out \in CoordOutputs : Invoke("phase1", <<PyStr(user_input)>>)
    /\ UNCHANGED <<driver, OPENAI_API_KEY, input_read, user_input, phase4_locals,
                   template, files, files_quiet, error, runs, extract_vars>>

\* phase 1 returns result.final_output; main asks the coordinator for feedback
Phase1Returns ==
    /\ pc = "phase1"
    /\ \E out \in ReqOutputs :
          /\ requirements' = out
          /\ Invoke("req_feedback", <<PyStr(out)>>)
    /\ UNCHANGED <<driver, OPENAI_API_KEY, input_read, user_input, architecture,
                   endpoints, schemas, api_spec_paths, template, files,
                   files_quiet, error, runs,
                   extract_vars>>

\* main passes the brief, not the requirements, to phase 2
Phase2Argument_brief == user_input

\* what main passes to phase_2_architecture_design
Phase2Argument == requirements

\* the feedback returns; phase_2_architecture_design(requirements) runs up to
\* its await
ReqFeedbackReturns ==
    /\ pc = "req_feedback"
    /\ \E out \in CoordOutputs : Invoke("phase2", <<PyStr(Phase2Argument)>>)
    /\ UNCHANGED <<driver, OPENAI_API_KEY, input_read, user_input, phase4_locals,
                   template, files, files_quiet, error, runs, extract_vars>>

\* phase 2 returns result.final_output; main asks the coordinator for feedback
Phase2Returns ==
    /\ pc = "phase2"
    /\ \E out \in ArchOutputs :
          /\ architecture' = out
          /\ Invoke("arch_feedback", <<PyStr(out)>>)
    /\ UNCHANGED <<driver, OPENAI_API_KEY, input_read, user_input, requirements,
                   endpoints, schemas, api_spec_paths, template, files,
                   files_quiet, error, runs,
                   extract_vars>>

\* the feedback returns; phase_3_endpoint_design(architecture) runs up to its
\* await
ArchFeedbackReturns ==
    /\ pc = "arch_feedback"
    /\ \E out \in CoordOutputs : Invoke("phase3", <<PyStr(architecture)>>)
    /\ UNCHANGED <<driver, OPENAI_API_KEY, input_read, user_input, phase4_locals,
                   template, files, files_quiet, error, runs, extract_vars>>

\* what phase 3 returns for the endpoint designer's text: the extracted
\* value, or the default when that value is falsy
phase_3_result(endpoints_text) ==
    LET extracted == extract_json_from_text(endpoints_text)
    IN  IF ~Truthy(extracted)
        THEN PyDict([z \in {<<"paths">>} |-> EmptyDict])
        ELSE extracted

\* phase 3 asking its agent again when no JSON could be extracted
Phase3Returns_retry ==
    /\ pc = "phase3"
    /\ \E out \in EndpointOutputs :
          /\ endpoints' = phase_3_result(out)
          /\ IF extract_json_from_text(out) = None
             THEN Invoke("phase3", calls[Len(calls)].args)
             ELSE Invoke("endpoint_feedback", <<>>)
    /\ UNCHANGED <<driver, OPENAI_API_KEY, input_read, user_input, requirements,
                   architecture, schemas, api_spec_paths, template, files,
                   files_quiet, error, runs, extract_vars>>

\* phase 3 returns; main asks the coordinator for feedback (a prompt with
\* nothing interpolated)
Phase3Returns ==
    /\ pc = "phase3"
    /\ \E out \in EndpointOutputs :
          /\ endpoints' = phase_3_result(out)
          /\ Invoke("endpoint_feedback", <<>>)
    /\ UNCHANGED <<driver, OPENAI_API_KEY, input_read, user_input, requirements,
                   architecture, schemas, api_spec_paths, template, files,
                   files_quiet, error,
                   runs, extract_vars>>

---------------------------------------------------------------------------
(* phase_4_documentation_generation and generate_markdown_documentation. *)

\* api_spec["paths"] = endpoints.get("paths") with no test before it
seed_paths_get(eps) ==
    IF IsDict(eps) /\ <<"paths">> \in DOMAIN eps.m THEN eps.m[<<"paths">>] ELSE None

\* api_spec["paths"] after the copy of the template and the guarded update
seed_paths(eps) ==
    IF IsDict(eps) /\ <<"paths">> \in DOMAIN eps.m
    THEN eps.m[<<"paths">>]
    ELSE API_SPEC_TEMPLATE.m[<<"paths">>]

\* phase 4 from its entry to the await of the schema designer
Phase4Enter(req, arch, eps) ==
    /\ requirements' = req
    /\ architecture' = arch
    /\ endpoints' = eps
    /\ schemas' = Unset
    /\ api_spec_paths' = seed_paths(eps)
    /\ runs' = runs + 1
    /\ Invoke("schemas", <<PyStr(arch), eps>>)

\* the endpoint feedback returns; main calls phase 4
EndpointFeedbackReturns ==
    /\ pc = "endpoint_feedback"
    /\ \E out \in CoordOutputs : Phase4Enter(requirements, architecture, endpoints)
    /\ UNCHANGED <<driver, OPENAI_API_KEY, input_read, user_input, template, files,
                   files_quiet,
                   error, extract_vars>>

\* the schema designer returns: the extraction, the update of
\* api_spec["components"]["schemas"] (a slot of the shared components
\* object), the metadata call to the coordinator
SchemasReturns ==
    /\ pc = "schemas"
    /\ \E out \in SchemaOutputs :
          /\ schemas' = extract_json_from_text(out)
          /\ template_schemas' = IF Truthy(extract_json_from_text(out))
                                 THEN extract_json_from_text(out)
                                 ELSE template_schemas
    /\ Invoke("metadata", <<PyStr(requirements)>>)
    /\ UNCHANGED <<driver, OPENAI_API_KEY, input_read, user_input, requirements,
                   architecture, endpoints, api_spec_paths, template_info, files,
                   files_quiet,
                   error, runs, extract_vars>>

\* requirements.split('.')[0]
RECURSIVE first_sentence(_)
first_sentence(r) ==
    IF r = <<>> \/ Head(r) = "." THEN <<>>
    ELSE <<Head(r)>> \o first_sentence(Tail(r))

\* whether `title_data and "title" in title_data and "description" in
\* title_data`, or the assignments under it, raise TypeError
title_raises(title_data) ==
    /\ Truthy(title_data)
    /\ \/ InRaises(title_data)
       \/ /\ In(<<"title">>, title_data)
          /\ In(<<"description">>, title_data)
          /\ SubscriptRaises(title_data)

\* whether the extracted title and description are used
title_taken(title_data) ==
    /\ Truthy(title_data)
    /\ In(<<"title">>, title_data)
    /\ In(<<"description">>, title_data)

\* api_spec["info"] after the title, description, contact and terms updates
info_after(info, title_data, req) ==
    LET titled ==
          IF title_taken(title_data)
          THEN DictSet(DictSet(info, <<"title">>, title_data.m[<<"title">>]),
                       <<"description">>, title_data.m[<<"description">>])
          ELSE DictSet(DictSet(info, <<"title">>, PyStr(<<"REST API Specification">>)),
                       <<"description">>,
                       PyStr(<<"REST API based on user requirements", ".", " ">>
                                \o first_sentence(req) \o <<".">>))
    IN  DictSet(DictSet(titled, <<"contact">>, CONTACT), <<"termsOfService">>, TERMS)

\* the coordinator returns the metadata: the title and description, the
\* contact and terms, the save of api_spec, and generate_markdown_documentation
\* up to its await
MetadataReturns ==
    /\ pc = "metadata"
    /\ \E out \in TitleOutputs :
         LET title_data == extract_json_from_text(out)
         IN  IF title_raises(title_data)
             THEN Raise("TypeError")
             ELSE /\ template_info' = info_after(template_info, title_data, requirements)
                  /\ files' = save_to_file(files,
                                 ApiSpecOf(api_spec_paths, template_info', template_schemas),
                                 "openapi_specification.json")
                  /\ files_quiet' = save_to_file(files_quiet,
                                 ApiSpecOf(api_spec_paths, template_info', template_schemas),
                                 "openapi_specification.json")
                  /\ Invoke("documentation",
                            <<PyStr(requirements), PyStr(architecture),
                              ApiSpecOf(api_spec_paths, template_info', template_schemas)>>)
                  /\ UNCHANGED <<driver, OPENAI_API_KEY, input_read, user_input,
                                 phase4_locals, template_schemas, error, runs,
                                 extract_vars>>

\* the documentation agent returns; phase 4 returns api_spec; main asks the
\* coordinator for its final message (a caller of phase 4 alone has it back)
DocumentationReturns ==
    /\ pc = "documentation"
    /\ \E out \in DocOutputs :
         IF driver = "main"
         THEN Invoke("final", <<>>)
         ELSE /\ pc' = "idle"
              /\ calls' = <<>>
              /\ UNCHANGED <<ntools, tool_result, tool_call>>
    /\ UNCHANGED <<driver, OPENAI_API_KEY, input_read, user_input, phase4_locals,
                   template, files, files_quiet, error, runs, extract_vars>>

\* the final message returns; main prints and returns
FinalReturns ==
    /\ pc = "final"
    /\ \E out \in CoordOutputs : pc' = "done"
    /\ UNCHANGED <<driver, OPENAI_API_KEY, input_read, user_input, phase4_locals,
                   template, files,
                   files_quiet, calls, ntools, tool_result, tool_call, error, runs,
                   extract_vars>>

---------------------------------------------------------------------------
(* The three programs: asyncio.run(main()), a caller of phase 4, a caller *)
(* of the extractor.                                                      *)

InitCommon ==
    /\ input_read = FALSE
    /\ user_input = Unset
    /\ requirements = Unset
    /\ architecture = Unset
    /\ endpoints = Unset
    /\ schemas = Unset
    /\ api_spec_paths = Unset
    /\ template_info = InitialInfo
    /\ template_schemas = EmptyDict
    /\ files = [f \in FILES |-> Absent]
    /\ files_quiet = files
    /\ calls = <<>>
    /\ ntools = 0
    /\ tool_result = ""
    /\ tool_call = NoCall
    /\ error = NoError
    /\ runs = 0

Init ==
    /\ InitCommon
    /\ driver = "main"
    /\ pc = "start"
    /\ OPENAI_API_KEY \in KeyValues
    /\ text = <<>>
    /\ result = Unset

Next ==
    \/ MainStart
    \/ GuidanceReturns
    \/ Phase1Returns
    \/ ReqFeedbackReturns
    \/ Phase2Returns
    \/ ArchFeedbackReturns
    \/ Phase3Returns
    \/ EndpointFeedbackReturns
    \/ SchemasReturns
    \/ MetadataReturns
    \/ DocumentationReturns
    \/ FinalReturns
    \/ ToolCall
    \/ RunnerRaises

Spec == Init /\ [][Next]_vars

\* a program that calls phase_4_documentation_generation
Phase4Call ==
    /\ pc = "idle"
    /\ driver = "phase4"
    /\ runs < MaxRuns
    /\ \E req \in P4Requirements, arch \in P4Architectures, eps \in P4Endpoints :
          Phase4Enter(req, arch, eps)
    /\ UNCHANGED <<driver, OPENAI_API_KEY, input_read, user_input, template, files,
                   files_quiet,
                   error, extract_vars>>

InitPhase4 ==
    /\ InitCommon
    /\ driver = "phase4"
    /\ pc = "idle"
    /\ OPENAI_API_KEY = PyStr(<<"sk-key">>)
    /\ text = <<>>
    /\ result = Unset

NextPhase4 ==
    \/ Phase4Call
    \/ SchemasReturns
    \/ MetadataReturns
    \/ DocumentationReturns
    \/ ToolCall
    \/ RunnerRaises

SpecPhase4 == InitPhase4 /\ [][NextPhase4]_vars

\* a program that calls extract_json_from_text(text)
ExtractCall ==
    /\ pc = "idle"
    /\ driver = "extract"
    /\ result' = extract_json_from_text(text)
    /\ pc' = "returned"
    /\ UNCHANGED <<driver, OPENAI_API_KEY, input_read, user_input, phase4_locals,
                   template, files,
                   files_quiet, calls, ntools, tool_result, tool_call, error, runs, text>>

InitExtract ==
    /\ InitCommon
    /\ driver = "extract"
    /\ pc = "idle"
    /\ OPENAI_API_KEY = None
    /\ \E n \in 0..MaxLen : text \in TextsOfLen(n)
    /\ result = Unset

NextExtract == ExtractCall

SpecExtract == InitExtract /\ [][NextExtract]_vars

---------------------------------------------------------------------------
(* The claims. *)

\* the order in which main awaits Runner.run
ExpectedOrder ==
    <<"guidance", "phase1", "req_feedback", "phase2", "arch_feedback", "phase3",
      "endpoint_feedback", "schemas", "metadata", "documentation", "final">>

ExpectedAgents ==
    <<COORDINATOR, "Requirements Agent", COORDINATOR, "Architect Agent", COORDINATOR,
      "Endpoint Designer Agent", COORDINATOR, "Schema Designer Agent", COORDINATOR,
      "Documentation Agent", COORDINATOR>>

\* C1: in a run of main() past the credential check, the invocations made so
\* far are a prefix of the fixed order (guidance, requirements, feedback,
\* architecture, feedback, endpoints, feedback, the three invocations of
\* SPEC_AND_DOCS, final message), each by its agent; the one in flight is the
\* last one started; DONE is reached only after all eleven; and each phase's
\* prompt carries the artifact of the phase before it (the brief into phase
\* 1, the requirements into phase 2, the architecture into phase 3, the
\* architecture and endpoints into the schema call, the requirements into
\* the metadata call, requirements and architecture into the documentation
\* call).
C1_LinearOrder ==
    /\ Len(calls) <= Len(ExpectedOrder)
    /\ \A i \in 1..Len(calls) :
          /\ calls[i].prompt = ExpectedOrder[i]
          /\ calls[i].agent = ExpectedAgents[i]
    /\ pc \in AwaitPcs => (calls # <<>> /\ calls[Len(calls)].prompt = pc)
    /\ pc = "done" => Len(calls) = Len(ExpectedOrder)
    /\ pc \in {"start", "halted"} => calls = <<>>
    /\ \A i \in 1..Len(calls) :
          /\ i = 2 => calls[i].args = <<PyStr(user_input)>>
          /\ i = 4 => calls[i].args = <<PyStr(requirements)>>
          /\ i = 6 => calls[i].args = <<PyStr(architecture)>>
          /\ i = 8 => calls[i].args = <<PyStr(architecture), endpoints>>
          /\ i = 9 => calls[i].args = <<PyStr(requirements)>>
          /\ i = 10 => /\ Len(calls[i].args) = 3
                       /\ calls[i].args[1] = PyStr(requirements)
                       /\ calls[i].args[2] = PyStr(architecture)
    /\ Len(calls) >= 3 => requirements \in ReqOutputs
    /\ Len(calls) >= 5 => architecture \in ArchOutputs
    /\ Len(calls) >= 7 => endpoints # Unset

\* a full run: all eleven invocations made, main returned
C1_Witness == pc = "done" /\ Len(calls) = 11 /\ error = NoError

\* C2: with OPENAI_API_KEY unset or empty, main does nothing: no invocation,
\* no input read, no phase entered, no file written.
C2_NoKeyNoWork ==
    OPENAI_API_KEY \in {None, PyStr(<<>>)} =>
        /\ pc \in {"start", "halted"}
        /\ calls = <<>>
        /\ ~input_read
        /\ runs = 0
        /\ requirements = Unset
        /\ \A f \in FILES : files[f] = Absent

\* main has returned at the credential check, the key being the empty string
C2_Witness == OPENAI_API_KEY = PyStr(<<>>) /\ pc = "halted"

\* C3: once a Runner.run has raised, the run is over where it failed: the
\* failed invocation is the last one ever started, nothing further can
\* happen (no retry, no later invocation, no write), and DONE is not reached.
C3_InvocationFailureFatal ==
    error.type = "RunnerError" =>
        /\ pc = "crashed"
        /\ calls # <<>>
        /\ calls[Len(calls)].prompt = error.at
        /\ Len(calls) = CHOOSE i \in 1..Len(ExpectedOrder) : ExpectedOrder[i] = error.at
        /\ ~ENABLED Next

\* the architect's invocation has failed, after a tool call wrote a file
C3_Witness ==
    /\ pc = "crashed"
    /\ error = [type |-> "RunnerError", at |-> "phase2"]
    /\ files["api_requirements.json"] # Absent

\* C4: no extraction result ends the run: only a failed invocation does.
C4_ExtractionNeverFatal == pc = "crashed" => error.type = "RunnerError"

\* C5: at DONE all five artifact files exist.
C5_AllFilesAtDone == pc = "done" => \A f \in FILES : files[f] # Absent

\* C6: what phase 3 returns is a dict with the key paths mapped to a mapping.
C6_EndpointsHasPaths ==
    endpoints # Unset =>
        /\ IsDict(endpoints)
        /\ <<"paths">> \in DOMAIN endpoints.m
        /\ IsDict(endpoints.m[<<"paths">>])

\* C7: after a schema-design response that failed extraction, the document's
\* components.schemas is the empty mapping, in every invocation of phase 4.
C7_FailedSchemasEmpty ==
    (pc \in {"metadata", "documentation", "idle", "final", "done"}
        /\ schemas # Unset /\ ~Truthy(schemas)) =>
        api_spec.m[<<"components">>].m[<<"schemas">>] = EmptyDict

\* C8: at DONE openapi_specification.json holds an object whose info.title is
\* a non-empty string and whose info.contact and info.termsOfService are
\* present and non-empty.
C8_SpecFileInfoComplete ==
    pc = "done" =>
        LET doc == files["openapi_specification.json"]
        IN  /\ IsDict(doc)
            /\ <<"info">> \in DOMAIN doc.m
            /\ IsDict(doc.m[<<"info">>])
            /\ {<<"title">>, <<"contact">>, <<"termsOfService">>}
                   \subseteq DOMAIN doc.m[<<"info">>].m
            /\ IsStr(doc.m[<<"info">>].m[<<"title">>])
            /\ Truthy(doc.m[<<"info">>].m[<<"title">>])
            /\ Truthy(doc.m[<<"info">>].m[<<"contact">>])
            /\ Truthy(doc.m[<<"info">>].m[<<"termsOfService">>])

\* whether phase 4 was given an EndpointsSpec with a paths key
HasPaths(eps) == IsDict(eps) /\ <<"paths">> \in DOMAIN eps.m

\* C9: from the moment phase 4 has seeded its document, whatever the
\* EndpointsSpec it was given, the document's paths is the given paths value
\* when there is one and the empty mapping (never None) otherwise; and no
\* exception is raised by the seeding: the only exception phase 4's own code
\* raises comes after the metadata call.  The document saved before the
\* documentation call is that document.
C9_PathsFromEndpoints ==
    /\ runs > 0 =>
          /\ HasPaths(endpoints) => api_spec.m[<<"paths">>] = endpoints.m[<<"paths">>]
          /\ ~HasPaths(endpoints) =>
                /\ api_spec.m[<<"paths">>] = EmptyDict
                /\ api_spec.m[<<"paths">>] # None
    /\ pc = "documentation" => files["openapi_specification.json"] = api_spec
    /\ error.type = "TypeError" => error.at = "metadata"

\* phase 4 has returned twice, the second time from an EndpointsSpec that is
\* a dict without paths
C9_Witness ==
    /\ pc = "idle"
    /\ runs = 2
    /\ endpoints = PyDict([z \in {<<"title">>} |-> PyInt(5)])
    /\ api_spec.m[<<"paths">>] = EmptyDict

\* the fences of a text pair up in order: its k-th fenced block lies between
\* its (2k-1)-th and its 2k-th fence
NthFence(t, n) ==
    CHOOSE p \in 1..Len(t) :
        t[p] = FENCE /\ Cardinality({j \in 1..p : t[j] = FENCE}) = n

NumBlocks(t) == Cardinality({j \in 1..Len(t) : t[j] = FENCE}) \div 2

\* the trimmed body of the k-th block: what lies between its fences, less a
\* leading json tag and the whitespace around
TrimmedBody(t, k) ==
    LET inner == SubSeq(t, NthFence(t, 2 * k - 1) + 1, NthFence(t, 2 * k) - 1)
    IN  Strip(IF inner # <<>> /\ Head(inner) = TAG THEN Tail(inner) ELSE inner)

ParsingBlocks(t) == {k \in 1..NumBlocks(t) : json_loads(TrimmedBody(t, k)).ok}

\* C10: when some fenced block of the text parses, extract_json_from_text
\* returns the value of the first block that does, whatever blocks come
\* before it (they are skipped) or after it (they are not tried).
C10_FirstParsingBlock ==
    (pc = "returned" /\ ParsingBlocks(text) # {}) =>
        result = json_loads(TrimmedBody(text, Min(ParsingBlocks(text)))).v

\* a text of two blocks, the first malformed and the second valid, has
\* returned the second block's value
C10_Witness ==
    /\ pc = "returned"
    /\ NumBlocks(text) = 2
    /\ ParsingBlocks(text) = {2}
    /\ TrimmedBody(text, 1) # <<>>
    /\ result = PyInt(5)

\* the positions of the first "{" of a text and of its last "}"
FirstOpen(t) == Min({j \in 1..Len(t) : t[j] = "{"})
LastClose(t) == Max({j \in 1..Len(t) : t[j] = "}"})

\* whether a text has a "{" with a "}" somewhere after it
HasSpan(t) ==
    \E i, j \in 1..Len(t) : i < j /\ t[i] = "{" /\ t[j] = "}"

\* C11: for every text none of whose fenced blocks parses (a text without
\* fences included), extract_json_from_text returns the parse of the whole
\* text when that is valid JSON; otherwise the parse of the span from the
\* first "{" to the last "}" when that is valid JSON; otherwise None.  No
\* exception leaves the call: it is either still to be made or has returned.
C11_WholeThenSpanThenNone ==
    /\ driver = "extract" => (pc \in {"idle", "returned"} /\ error = NoError)
    /\ (pc = "returned" /\ ParsingBlocks(text) = {}) =>
          IF json_loads(text).ok
          THEN result = json_loads(text).v
          ELSE IF HasSpan(text)
                  /\ json_loads(SubSeq(text, FirstOpen(text), LastClose(text))).ok
               THEN result =
                      json_loads(SubSeq(text, FirstOpen(text), LastClose(text))).v
               ELSE result = None

\* a text with prose on both sides of an object, and no fence, has returned
\* the object
C11_Witness ==
    /\ pc = "returned"
    /\ ParsingBlocks(text) = {}
    /\ ~json_loads(text).ok
    /\ HasSpan(text)
    /\ FirstOpen(text) > 1
    /\ LastClose(text) < Len(text)
    /\ result = EmptyDict

\* what a step that calls a JSON save tool does, by the tool's target file
\* and success string
JsonToolContract(filename, saved) ==
    LET r == json_loads(tool_call'.arg)
    IN  IF r.ok
        THEN /\ files' = [files EXCEPT ![filename] = r.v]
             /\ tool_result' = saved
        ELSE /\ files' = files
             /\ tool_result' = "Error: Invalid JSON format"

\* C12: a call of save_endpoints or save_openapi_spec with an argument that
\* is not valid JSON raises nothing, returns the failure string and leaves
\* every file, its target included, exactly as it was, and the pipeline goes
\* on (the invocation stays in flight, no exception is recorded); with valid
\* JSON it writes the parsed value to its target and returns its success
\* string.
C12_JsonToolsFailSoft ==
    [][ntools' = ntools + 1 =>
          /\ tool_call'.tool = "save_endpoints" =>
                JsonToolContract("api_endpoints.json", "Endpoints saved successfully")
          /\ tool_call'.tool = "save_openapi_spec" =>
                JsonToolContract("openapi_specification.json",
                                 "OpenAPI specification saved successfully")
          /\ tool_call'.tool \in {"save_endpoints", "save_openapi_spec"} =>
                (pc' = pc /\ error' = error /\ calls' = calls)]_vars

\* the coordinator, writing its final message after phase 4 saved the
\* document, has called save_endpoints with prose: the failure string came
\* back, the endpoints file written earlier and the saved document are as
\* they were
C12_Witness ==
    /\ pc = "final"
    /\ tool_call.tool = "save_endpoints"
    /\ ~json_loads(tool_call.arg).ok
    /\ tool_result = "Error: Invalid JSON format"
    /\ files["api_endpoints.json"] = EmptyDict
    /\ files["openapi_specification.json"] = api_spec
    /\ error = NoError

\* C13: the coordinator's commentary invocations (the initial guidance, the
\* feedback after phases 1 to 3, the final message) have no effect on the
\* pipeline.  The run and its companion differ only in what those
\* invocations do: every phase agent gets the same prompt and returns the
\* same artifact in both (calls and the phase locals are common to them), so
\* the claim is that they end with the same contents of the five files.
C13_CommentaryHasNoEffect == pc = "done" => files = files_quiet

PHASES == {"REQUIREMENTS", "ARCHITECTURE", "ENDPOINTS", "SPEC_AND_DOCS"}

\* the phase whose function holds the await (generate_markdown_documentation
\* is called by phase 4); main's own awaits belong to no phase
PhaseOf(p) ==
    CASE p = "phase1" -> "REQUIREMENTS"
      [] p = "phase2" -> "ARCHITECTURE"
      [] p = "phase3" -> "ENDPOINTS"
      [] p \in {"schemas", "metadata", "documentation"} -> "SPEC_AND_DOCS"
      [] OTHER -> "main"

\* the coordinator call main makes once the phase has returned
FollowUpOf(ph) ==
    CASE ph = "REQUIREMENTS"  -> "req_feedback"
      [] ph = "ARCHITECTURE"  -> "arch_feedback"
      [] ph = "ENDPOINTS"     -> "endpoint_feedback"
      [] ph = "SPEC_AND_DOCS" -> "final"

\* the invocations a phase has made of agents other than the coordinator
OwnCalls(ph) ==
    Cardinality({i \in 1..Len(calls) :
                   PhaseOf(calls[i].prompt) = ph /\ calls[i].agent # COORDINATOR})

\* the invocations of the coordinator a phase has made itself
InnerCoordinatorCalls(ph) ==
    Cardinality({i \in 1..Len(calls) :
                   PhaseOf(calls[i].prompt) = ph /\ calls[i].agent = COORDINATOR})

\* the coordinator calls main has made after the phase
FollowUpCalls(ph) ==
    Cardinality({i \in 1..Len(calls) :
                   calls[i].prompt = FollowUpOf(ph) /\ calls[i].agent = COORDINATOR})

\* C14 as stated: in every successful run each of the four phases has
\* invoked an agent exactly once for its own artifact, and one coordinator
\* call goes with it.
C14_OncePerPhase ==
    pc = "done" =>
        \A ph \in PHASES :
            /\ OwnCalls(ph) = 1
            /\ InnerCoordinatorCalls(ph) + FollowUpCalls(ph) = 1

OwnExpected(ph) == IF ph = "SPEC_AND_DOCS" THEN 2 ELSE 1
InnerExpected(ph) == IF ph = "SPEC_AND_DOCS" THEN 1 ELSE 0

\* C14 amended: REQUIREMENTS, ARCHITECTURE and ENDPOINTS each invoke their
\* agent exactly once and the coordinator never; SPEC_AND_DOCS makes three
\* invocations, in this order: the schema designer, the coordinator (for the
\* title and description), the documentation agent.  Main follows each phase
\* with exactly one coordinator call.  No phase ever exceeds these numbers,
\* and a successful run has made them all.
C14_InvocationsPerPhase ==
    /\ \A ph \in PHASES :
          /\ OwnCalls(ph) <= OwnExpected(ph)
          /\ InnerCoordinatorCalls(ph) <= InnerExpected(ph)
          /\ FollowUpCalls(ph) <= 1
    /\ pc = "done" =>
          /\ \A ph \in PHASES :
                /\ OwnCalls(ph) = OwnExpected(ph)
                /\ InnerCoordinatorCalls(ph) = InnerExpected(ph)
                /\ FollowUpCalls(ph) = 1
          /\ \E i \in 1..Len(calls) - 2 :
                /\ calls[i].agent = "Schema Designer Agent"
                /\ calls[i + 1].agent = COORDINATOR
                /\ calls[i + 1].prompt = "metadata"
                /\ calls[i + 2].agent = "Documentation Agent"

\* a successful run: phase 4 has made its two own invocations and its
\* coordinator call, the final message has followed
C14_Witness ==
    /\ pc = "done"
    /\ OwnCalls("SPEC_AND_DOCS") = 2
    /\ InnerCoordinatorCalls("SPEC_AND_DOCS") = 1
    /\ FollowUpCalls("SPEC_AND_DOCS") = 1
    /\ OwnCalls("ENDPOINTS") = 1

\* C15: running phase 4 leaves API_SPEC_TEMPLATE unchanged: after any number
\* of runs, with any agent outputs, the template has its initial value (the
\* default info.title and info.description, no info.contact and no
\* info.termsOfService, empty paths, empty components.schemas).
C15_TemplateUnchanged ==
    /\ API_SPEC_TEMPLATE = ApiSpecOf(EmptyDict, InitialInfo, EmptyDict)
    /\ DOMAIN API_SPEC_TEMPLATE.m[<<"info">>].m
          \cap {<<"contact">>, <<"termsOfService">>} = {}

=============================================================================
